---- MODULE Spec2Model ----
(***************************************************************************)
(* A model of the World Bank bulk downloader                               *)
(* (src/src/world_bank/data_downloader.py, src/src/world_bank_data_        *)
(* downloader.py).                                                         *)
(*                                                                         *)
(* SpecCall : one invocation of get_country_codes, get_indicators or       *)
(*            fetch_data under the tenacity @retry wrapper, against a      *)
(*            server that may answer each request in any way.              *)
(* SpecConc : one invocation of fetch_data_concurrently: the coordinating  *)
(*            thread, the worker pool and the futures.                     *)
(* SpecAll  : one invocation of download_all_data (the sequential driver). *)
(* SpecResultSets : either of the two, for what both result mappings share.*)
(* SpecPersist : save_data_to_file followed by load_data_from_file, in     *)
(*            both variants of the key encoding.                           *)
(* SpecLog  : threads constructing SingletonLogger                         *)
(*            (src/src/utils/singleton_logger.py), statement by statement. *)
(* SpecMain : one run of main() (src/main.py) or of extract()              *)
(*            (src/src/world_bank/data_downloader_by_country.py).          *)
(***************************************************************************)
EXTENDS Integers, Sequences, FiniteSets, TLC

VARIABLES
    fn,         \* the function that was called
    pc,         \* "running" | "failed" (the body raised) | "returned" | "raised"
    attempt,    \* tenacity's attempt_number, counted from 1
    page,       \* fetch_data: the local 'page'
    acc,        \* fetch_data: the local 'all_pages_data'
    reqs,       \* the requests.get calls of the current attempt, with the answers
    totalReqs,  \* the requests.get calls of the whole invocation
    firstResp,  \* the answer to the first request of the invocation (Nil: none yet)
    seen,       \* the classes of the answers received during the invocation
    result,     \* the value returned to the caller (pc = "returned")
    country,    \* fetch_data_concurrently: country_code
    codes,      \* fetch_data_concurrently: indicator_codes
    maxWorkers, \* fetch_data_concurrently: max_workers
    cpc,        \* the calling thread: "running" | "returned" | "raised"
    futures,    \* the futures, in submission order
    submits,    \* the executor.submit calls made, in order
    yielded,    \* the futures as_completed has handed to the loop so far
    results,    \* fetch_data_concurrently: the local 'results'
    ccodes,     \* download_all_data: self.country_codes
    icodes,     \* download_all_data: self.indicator_codes
    dpc,        \* download_all_data: "loop" | "fetching" | "returned" | "raised"
    ci,         \* position of the outer loop in country_codes
    mi,         \* position of the inner loop in indicator_codes
    completed,  \* the local 'completed_requests'
    total,      \* the local 'total_requests'
    progress,   \* the local 'progress', as the pair <<completed * 100, total>>
    emitted,    \* the percentage printed by the last progress line, in hundredths
    nEmitted,   \* the progress lines logged
    nCalls,     \* the fetch_data calls made
    lastCall,   \* the arguments of the last fetch_data call
    lastOut,    \* how the last fetch_data call ended
    outs,       \* the different ways the fetch_data calls ended so far
    sleeps,     \* the time.sleep(0.5) calls made
    all_data,   \* the local 'all_data'
    variant,    \* which module's save / load pair runs: "delim" | "literal"
    ppc,        \* "start" | "saved" | "loaded" | "failed" (load raised)
    saved,      \* the data passed to save_data_to_file
    file,       \* the JSON object in the file: encoded key -> value
    loaded,     \* what load_data_from_file returned
    instance,   \* SingletonLogger._instance: None or the object and its attributes
    loggers,    \* the loggers of the logging module: name -> level and handlers
    lock,       \* the thread that holds SingletonLogger._lock, or Free
    tpc,        \* thread -> the statement of __new__ it is at, or how its call ended
    targs,      \* thread -> the arguments of its call
    tret,       \* thread -> the object its last call returned
    thandler,   \* thread -> the local 'console_handler' of _create_handler
    made,       \* the objects made by super().__new__(cls)
    inits,      \* the _initialize_logger calls made
    ncons,      \* the SingletonLogger(...) calls made
    lastArgs,   \* the arguments of the call made last
    overlap,    \* whether a call was made while another was in progress
    resets,     \* how often _instance was set back to None from outside
    prog,       \* the entry point that runs: "main" | "extract"
    mpc,        \* the statement it is at, "returned" or "raised"
    country_codes,    \* downloader.country_codes
    indicator_codes,  \* downloader.indicator_codes
    indicators, \* extract: the local 'indicators': the list, then a loaded value
    mk,         \* main: the position of the loop in country_codes
    country_data,  \* main: the local 'country_data'; extract: 'australia_data'
    aggregate,  \* main: the local 'all_data'
    mlog,       \* the calls made on the downloader and their returns, in order
    infos,      \* the logger.info lines emitted
    written     \* main: all_data as it was when save_data_to_file was called

callVars == <<fn, pc, attempt, page, acc, reqs, totalReqs, firstResp, seen, result>>
concVars == <<country, codes, maxWorkers, cpc, futures, submits, yielded, results>>
allVars == <<ccodes, icodes, dpc, ci, mi, completed, total, progress, emitted,
             nEmitted, nCalls, lastCall, lastOut, outs, sleeps, all_data>>
perVars == <<variant, ppc, saved, file, loaded>>
logVars == <<instance, loggers, lock, tpc, targs, tret, thandler, made, inits,
             ncons, lastArgs, overlap, resets>>
mainVars == <<prog, mpc, country_codes, indicator_codes, indicators, mk,
              country_data, aggregate, mlog, infos, written>>
vars == <<callVars, concVars, allVars, perVars, logVars, mainVars>>

(***************************************************************************)
(* Bounds of the model.                                                    *)
(***************************************************************************)
\* the largest page number and page count the server reports
MaxPage == 2
\* the most observations one page carries
MaxItems == 2
\* the most metrics passed to fetch_data_concurrently
MaxMetrics == 2
\* the largest max_workers tried
MaxPool == 2

\* the most requests followed within one attempt of fetch_data: one more than
\* an honest server of MaxPage pages needs
MaxReq == MaxPage + 1

Nil == "nil"

\* a fetch_data call that has not ended
NotRun == [kind |-> "none", data |-> << >>]

\* download_all_data is not running
AllIdle ==
    /\ ccodes = << >>
    /\ icodes = << >>
    /\ dpc = "idle"
    /\ ci = 0
    /\ mi = 0
    /\ completed = 0
    /\ total = 0
    /\ progress = <<0, 1>>
    /\ emitted = 0
    /\ nEmitted = 0
    /\ nCalls = 0
    /\ lastCall = << >>
    /\ lastOut = NotRun
    /\ outs = {}
    /\ sleeps = 0
    /\ all_data = << >>

\* an attribute no statement has assigned; cls._instance = None; a thread
\* outside a call has no arguments and has returned nothing; the lock is free
Unset == "unset"
None == [id |-> 0, logger |-> Unset, log_level |-> Unset, log_format |-> Unset,
         done |-> FALSE]
NoArgs == [logger_name |-> Nil, log_level |-> Nil, log_format |-> Nil]
NoReturn == [kind |-> "none", id |-> 0]
Free == 0

\* no thread constructs a SingletonLogger
LogIdle ==
    /\ instance = None
    /\ loggers = << >>
    /\ lock = Free
    /\ tpc = << >>
    /\ targs = << >>
    /\ tret = << >>
    /\ thandler = << >>
    /\ made = 0
    /\ inits = 0
    /\ ncons = 0
    /\ lastArgs = NoArgs
    /\ overlap = FALSE
    /\ resets = 0

\* neither main() nor extract() runs
MainIdle ==
    /\ prog = Nil
    /\ mpc = "idle"
    /\ country_codes = << >>
    /\ indicator_codes = << >>
    /\ indicators = << >>
    /\ mk = 0
    /\ country_data = << >>
    /\ aggregate = << >>
    /\ mlog = << >>
    /\ infos = 0
    /\ written = << >>

\* nothing is saved or loaded
PerIdle ==
    /\ variant = Nil
    /\ ppc = "idle"
    /\ saved = << >>
    /\ file = << >>
    /\ loaded = << >>

(***************************************************************************)
(* The server: what requests.get and response.json() can produce.          *)
(***************************************************************************)
\* an observation record of a page; the code never looks inside
Observations == {[v |-> n] : n \in 1..MaxItems}

\* observation lists of a page: <<o1>>, <<o2, o1>>, ... (distinct lists, so that
\* the order of concatenation shows)
RECURSIVE Countdown(_)
Countdown(n) == IF n = 0 THEN << >> ELSE <<[v |-> n]>> \o Countdown(n - 1)

ItemLists == {Countdown(n) : n \in 1..MaxItems}

\* the metadata record of a page, and one that lacks page and pages
Metas == [page : 1..MaxPage, pages : 0..MaxPage]
BareMeta == [per_page |-> 1000]

\* bodies of a series page: a JSON array of 0, 1 or 2 elements
FetchBodies ==
    {<< >>, <<[message |-> "x"]>>}
        \cup {<<m, i>> : m \in Metas \cup {BareMeta}, i \in ItemLists \cup {<< >>}}

\* items of a reference list: with an id, or without one
RefItemLists ==
    {<< >>, <<[id |-> "A"]>>, <<[id |-> "A"], [id |-> "B"]>>,
     <<[id |-> "A"], [name |-> "b"]>>}

RefBodies ==
    {<< >>, <<[message |-> "x"]>>} \cup {<<[page |-> 1, pages |-> 1], i>> : i \in RefItemLists}

\* fault: "none" (a 2xx answer with a JSON body), "transport" (requests.get raises
\* a RequestException), "http" (raise_for_status raises HTTPError)
Faults == {"transport", "http"}

Responses(bodies) ==
    [fault : {"none"}, body : bodies] \cup [fault : Faults, body : {<< >>}]

(***************************************************************************)
(* The code of the three network functions, as operators.                  *)
(***************************************************************************)
RefFns == {"get_country_codes", "get_indicators"}
Fns == RefFns \cup {"fetch_data"}

\* stop_after_attempt(3)
MAX_ATTEMPTS == 3

\* tenacity: after a failed attempt, give up when the stop condition holds
StopAfterAttemptLate(n) == n >= MAX_ATTEMPTS + 1
StopAfterAttempt(n) == n >= MAX_ATTEMPTS

\* [country['id'] for country in countries]; KeyError when an item has no id
AllHaveId(items) == \A k \in 1..Len(items) : "id" \in DOMAIN items[k]
Ids(items) == [k \in 1..Len(items) |-> items[k].id]

\* what one run of the body of get_country_codes / get_indicators does with the
\* answer: it returns a value, or raises past its own except clause
GetListRaisesOnFault(resp) ==
    IF resp.fault # "none" \/ Len(resp.body) < 2 \/ ~AllHaveId(resp.body[2])
    THEN [kind |-> "raise", value |-> << >>]
    ELSE [kind |-> "return", value |-> Ids(resp.body[2])]
GetList(resp) ==
    IF resp.fault # "none"
    THEN \* except RequestException: log, return []
         [kind |-> "return", value |-> << >>]
    ELSE IF Len(resp.body) < 2
    THEN \* response.json()[1]: IndexError, not caught by the body
         [kind |-> "raise", value |-> << >>]
    ELSE IF ~AllHaveId(resp.body[2])
    THEN \* country['id']: KeyError, not caught by the body
         [kind |-> "raise", value |-> << >>]
    ELSE [kind |-> "return", value |-> Ids(resp.body[2])]

\* if len(data) < 2 or not data[1]: break
NoMoreDataLenOnly(data) == Len(data) < 2
NoMoreData(data) == Len(data) < 2 \/ data[2] = << >>

\* data[0]['page'], data[0]['pages']: KeyError when either is missing
HasPageFields(meta) == {"page", "pages"} \subseteq DOMAIN meta

\* if data[0]['page'] >= data[0]['pages']: break
LastPageStrict(meta) == meta.page > meta.pages
LastPage(meta) == meta.page >= meta.pages

\* page += 1
NextPage(p) == p + 1

\* except RequestException: log, break; then return all_pages_data
OnRequestExceptionDrop(a) == << >>
OnRequestException(a) == a

\* all_pages_data.extend(data[1])
ExtendInFront(a, items) == items \o a
Extend(a, items) == a \o items

\* one iteration of the loop of fetch_data on the answer to the request for
\* page p, with a the records accumulated so far: the loop goes on, the
\* function returns, or an exception leaves the body
FetchStep(p, a, resp) ==
    IF resp.fault # "none"
    THEN [kind |-> "return", page |-> p, acc |-> OnRequestException(a)]
    ELSE IF NoMoreData(resp.body)
    THEN [kind |-> "return", page |-> p, acc |-> a]
    ELSE LET a2 == Extend(a, resp.body[2]) IN
         IF ~HasPageFields(resp.body[1])
         THEN [kind |-> "raise", page |-> p, acc |-> a2]
         ELSE IF LastPage(resp.body[1])
         THEN [kind |-> "return", page |-> p, acc |-> a2]
         ELSE [kind |-> "continue", page |-> NextPage(p), acc |-> a2]

\* the class of an answer, as the code tells them apart
ListClass(resp) ==
    IF resp.fault # "none" THEN "fault"
    ELSE IF Len(resp.body) < 2 THEN "short"
    ELSE IF ~AllHaveId(resp.body[2]) THEN "noid"
    ELSE "list"

FetchClass(resp) ==
    IF resp.fault # "none" THEN "fault"
    ELSE IF Len(resp.body) < 2 THEN "short"
    ELSE IF resp.body[2] = << >> THEN "empty"
    ELSE IF ~HasPageFields(resp.body[1]) THEN "nometa"
    ELSE "page"

(***************************************************************************)
(* SpecCall: one invocation under @retry.                                  *)
(***************************************************************************)
ConcIdle ==
    /\ country = Nil
    /\ codes = << >>
    /\ maxWorkers = 0
    /\ cpc = "idle"
    /\ futures = << >>
    /\ submits = << >>
    /\ yielded = {}
    /\ results = << >>

InitCall ==
    /\ fn \in Fns
    /\ pc = "running"
    /\ attempt = 1
    /\ page = 1
    /\ acc = << >>
    /\ reqs = << >>
    /\ totalReqs = 0
    /\ firstResp = Nil
    /\ seen = {}
    /\ result = << >>
    /\ ConcIdle
    /\ AllIdle
    /\ PerIdle
    /\ LogIdle
    /\ MainIdle

\* the bookkeeping of one requests.get call
Logged(p, resp, class) ==
    /\ reqs' = Append(reqs, [page |-> p, resp |-> resp])
    /\ totalReqs' = totalReqs + 1
    /\ firstResp' = IF totalReqs = 0 THEN class ELSE firstResp
    /\ seen' = seen \cup {class}

\* the body of get_country_codes / get_indicators: one request and its handling
ListRequest(resp) ==
    /\ fn \in RefFns
    /\ pc = "running"
    /\ Logged(0, resp, ListClass(resp))
    /\ LET o == GetList(resp) IN
         /\ pc' = IF o.kind = "return" THEN "returned" ELSE "failed"
         /\ result' = IF o.kind = "return" THEN o.value ELSE result
    /\ UNCHANGED <<fn, attempt, page, acc, concVars, allVars, perVars, logVars, mainVars>>

\* one iteration of the loop of fetch_data: the request for 'page' and its handling
FetchPage(resp) ==
    /\ fn = "fetch_data"
    /\ pc = "running"
    /\ Len(reqs) < MaxReq
    /\ Logged(page, resp, FetchClass(resp))
    /\ LET o == FetchStep(page, acc, resp) IN
         /\ pc' = CASE o.kind = "return" -> "returned"
                    [] o.kind = "raise" -> "failed"
                    [] OTHER -> "running"
         /\ page' = o.page
         /\ acc' = o.acc
         /\ result' = IF o.kind = "return" THEN o.acc ELSE result
    /\ UNCHANGED <<fn, attempt, concVars, allVars, perVars, logVars, mainVars>>

\* all_pages_data = []: the accumulator of a new run of the body, a being the
\* accumulator of the run that raised
AccumulatorKept(a) == a
Accumulator(a) == << >>

\* tenacity's wrapper after the body raised: RetryError after the last attempt,
\* otherwise wait and run the body again from its first line
Retry ==
    /\ pc = "failed"
    /\ IF StopAfterAttempt(attempt)
       THEN /\ pc' = "raised"
            /\ UNCHANGED <<attempt, page, acc, reqs>>
       ELSE /\ pc' = "running"
            /\ attempt' = attempt + 1
            /\ page' = 1
            /\ acc' = Accumulator(acc)
            /\ reqs' = << >>
    /\ UNCHANGED <<fn, totalReqs, firstResp, seen, result, concVars, allVars, perVars, logVars, mainVars>>

NextCall ==
    \/ \E resp \in Responses(RefBodies) : ListRequest(resp)
    \/ \E resp \in Responses(FetchBodies) : FetchPage(resp)
    \/ Retry

SpecCall == InitCall /\ [][NextCall]_vars

(***************************************************************************)
(* SpecConc: one invocation of fetch_data_concurrently.                    *)
(***************************************************************************)
Countries == {"AUS"}
Metrics == {"M1", "M2"}

\* the lists of at most n metrics, repetitions allowed
RECURSIVE SeqsUpTo(_, _)
SeqsUpTo(S, n) ==
    IF n = 0 THEN {<< >>}
    ELSE LET shorter == SeqsUpTo(S, n - 1) IN
         shorter \cup {Append(q, x) : q \in shorter, x \in S}

Range(q) == {q[k] : k \in 1..Len(q)}

\* how a fetch_data task can end: it returns a series (possibly empty), or the
\* retry wrapper raises
TaskOutcomes ==
    [kind : {"return"}, data : ItemLists \cup {<< >>}]
        \cup [kind : {"raise"}, data : {<< >>}]

CallIdle ==
    /\ fn = Nil
    /\ pc = "idle"
    /\ attempt = 0
    /\ page = 0
    /\ acc = << >>
    /\ reqs = << >>
    /\ totalReqs = 0
    /\ firstResp = Nil
    /\ seen = {}
    /\ result = << >>

\* def fetch_data_concurrently(self, country_code, indicator_codes, max_workers=10)
DefaultMaxWorkers == 10

InitConc ==
    /\ country \in Countries
    /\ codes \in SeqsUpTo(Metrics, MaxMetrics)
    /\ maxWorkers \in (1..MaxPool) \cup {DefaultMaxWorkers}
    /\ cpc = "running"
    /\ futures = << >>
    /\ submits = << >>
    /\ yielded = {}
    /\ results = << >>
    /\ CallIdle
    /\ AllIdle
    /\ PerIdle
    /\ LogIdle
    /\ MainIdle

\* executor.submit(self.fetch_data, country_code, indicator_code)
SubmitArgsSwapped(c, ic) == <<"fetch_data", ic, c>>
SubmitArgs(c, ic) == <<"fetch_data", c, ic>>

\* the tasks a worker thread is executing
Running == {i \in 1..Len(futures) : futures[i].st = "running"}
Queued == {i \in 1..Len(futures) : futures[i].st = "queued"}

\* results[indicator_code] = data
StoreRebinding(r, ic, data) == [m \in {ic} |-> data]
Store(r, ic, data) ==
    [m \in DOMAIN r \cup {ic} |-> IF m = ic THEN data ELSE r[m]]

\* ThreadPoolExecutor(max_workers=max_workers): the number of worker threads
PoolSizePerTask(mw, n) == n
PoolSize(mw, n) == mw

\* fetch_data, run by a worker thread, has no access to 'results': it leaves
\* the mapping r as it is and hands its outcome to the future
WorkerStoresItself(r, ic, out) ==
    IF out.kind = "return" /\ out.data # << >>
    THEN [m \in DOMAIN r \cup {ic} |-> IF m = ic THEN out.data ELSE r[m]]
    ELSE r
WorkerLeaves(r, ic, out) == r

\* except Exception: what a task raises (tenacity's RetryError) is caught
CaughtIfRequestException(out) == FALSE
Caught(out) == TRUE

\* the body of the loop over as_completed on a finished future
Collected(r, ic, out) ==
    IF out.kind = "raise"
    THEN \* except Exception: log
         r
    ELSE IF out.data # << >>
    THEN Store(r, ic, out.data)
    ELSE r

\* the dict comprehension: the next element of indicator_codes is submitted
Submit ==
    /\ cpc = "running"
    /\ Len(futures) < Len(codes)
    /\ LET ic == codes[Len(futures) + 1] IN
         /\ submits' = Append(submits, SubmitArgs(country, ic))
         /\ futures' = Append(futures, [ind |-> ic, st |-> "queued", out |-> NotRun])
    /\ UNCHANGED <<country, codes, maxWorkers, cpc, yielded, results, callVars, allVars, perVars, logVars, mainVars>>

\* a worker thread of the pool takes the oldest queued task
Start(i) ==
    /\ i \in Queued
    /\ \A j \in Queued : i <= j
    /\ Cardinality(Running) < PoolSize(maxWorkers, Len(codes))
    /\ futures' = [futures EXCEPT ![i].st = "running"]
    /\ UNCHANGED <<country, codes, maxWorkers, cpc, submits, yielded, results, callVars, allVars, perVars, logVars, mainVars>>

\* the task ends and its future is set
Finish(i, out) ==
    /\ i \in Running
    /\ futures' = [futures EXCEPT ![i].st = "done", ![i].out = out]
    /\ results' = WorkerLeaves(results, futures[i].ind, out)
    /\ UNCHANGED <<country, codes, maxWorkers, cpc, submits, yielded, callVars, allVars, perVars, logVars, mainVars>>

\* as_completed yields a finished future and the loop body handles it
Collect(i) ==
    /\ cpc = "running"
    /\ Len(futures) = Len(codes)
    /\ i \in 1..Len(futures)
    /\ i \notin yielded
    /\ futures[i].st = "done"
    /\ yielded' = yielded \cup {i}
    /\ results' = Collected(results, futures[i].ind, futures[i].out)
    /\ cpc' = IF futures[i].out.kind = "raise" /\ ~Caught(futures[i].out)
              THEN "raised"
              ELSE "running"
    /\ UNCHANGED <<country, codes, maxWorkers, futures, submits, callVars, allVars, perVars, logVars, mainVars>>

\* every future was yielded: the with block is left and results is returned
Return ==
    /\ cpc = "running"
    /\ Len(futures) = Len(codes)
    /\ yielded = 1..Len(futures)
    /\ cpc' = "returned"
    /\ UNCHANGED <<country, codes, maxWorkers, futures, submits, yielded, results, callVars, allVars, perVars, logVars, mainVars>>

NextConc ==
    \/ Submit
    \/ \E i \in 1..Len(futures) : Start(i)
    \/ \E i \in 1..Len(futures), out \in TaskOutcomes : Finish(i, out)
    \/ \E i \in 1..Len(futures) : Collect(i)
    \/ Return

SpecConc == InitConc /\ [][NextConc]_vars

(***************************************************************************)
(* download_all_data (src/world_bank_data_downloader.py): the sequential   *)
(* double loop over self.country_codes and self.indicator_codes.  The two  *)
(* lists are what get_country_codes and get_indicators returned: any list  *)
(* of ids, repeated ids included.  fetch_data is the function modelled in   *)
(* SpecCall; here a call is one step that ends in one of its outcomes.     *)
(***************************************************************************)
\* the longest lists of country codes and of indicator codes, repeats included
MaxCodes == 2
\* the fetch_data calls followed in one run
MaxCalls == 4
\* the length of two long lists: more than 10000 pairs
BigLen == 174

AllCountries == {"AUS", "USA"}

\* a list of BigLen different codes
BigCodes == [i \in 1..BigLen |-> "C" \o ToString(i)]

\* A Python float is an IEEE 754 double: 53 significant bits, here the
\* sequence m of its bits (most significant first, m[1] = 1) and the exponent
\* e of its last bit, so that its value is m * 2^e.
Precision == 53

Zeros(n) == [i \in 1..n |-> 0]
Front(b) == SubSeq(b, 1, Len(b) - 1)

\* the bits of a natural number, and the natural number of a sequence of bits
RECURSIVE Bits(_)
Bits(n) == IF n = 0 THEN << >> ELSE Append(Bits(n \div 2), n % 2)
RECURSIVE Val(_)
Val(b) == IF b = << >> THEN 0 ELSE 2 * Val(Front(b)) + b[Len(b)]

\* b without its leading zeros
Strip(b) ==
    LET ones == {i \in 1..Len(b) : b[i] = 1}
    IN  IF ones = {} THEN << >>
        ELSE SubSeq(b, CHOOSE i \in ones : \A k \in ones : i <= k, Len(b))

\* the sum of two numbers given by sequences of bits: position i receives a
\* carry when a lower position makes one and all between pass it on
AddBits(a, b) ==
    LET n == (IF Len(a) > Len(b) THEN Len(a) ELSE Len(b)) + 1
        x == Zeros(n - Len(a)) \o a
        y == Zeros(n - Len(b)) \o b
        carry(i) == \E k \in (i + 1)..n :
                        /\ x[k] + y[k] = 2
                        /\ \A h \in (i + 1)..(k - 1) : x[h] + y[h] = 1
    IN  Strip([i \in 1..n |-> (x[i] + y[i] + (IF carry(i) THEN 1 ELSE 0)) % 2])

\* b * 100, as 64 b + 32 b + 4 b
Times100(b) ==
    IF b = << >> THEN << >>
    ELSE AddBits(AddBits(b \o Zeros(6), b \o Zeros(5)), b \o Zeros(2))

\* the number b * 2^e + (something below 2^e, positive iff sticky), rounded to
\* the nearest number of n bits, a tie to the even one; b has more than n bits
RoundToNearestEven(b, e, sticky, n) ==
    LET keep == SubSeq(b, 1, n)
        rest == SubSeq(b, n + 2, Len(b))
        more == sticky \/ \E i \in 1..Len(rest) : rest[i] = 1
        up == b[n + 1] = 1 /\ (more \/ keep[n] = 1)
        sum == IF up THEN AddBits(keep, <<1>>) ELSE keep
        e1 == e + Len(b) - n
    IN  IF Len(sum) > n THEN [m |-> SubSeq(sum, 1, n), e |-> e1 + 1]
        ELSE [m |-> sum, e |-> e1]

\* a * b modulo t, 2^k modulo t, and the remainder left of c / t after k bits
\* of the fraction
RECURSIVE TimesMod(_, _, _)
TimesMod(a, b, t) ==
    IF b = 0 THEN 0
    ELSE (2 * TimesMod(a, b \div 2, t) + (b % 2) * (a % t)) % t
RECURSIVE PowerMod(_, _)
PowerMod(k, t) ==
    IF k = 0 THEN 1 % t
    ELSE LET h == PowerMod(k \div 2, t)
         IN  TimesMod(TimesMod(h, h, t), IF k % 2 = 1 THEN 2 ELSE 1, t)
Remainder(c, t, k) == TimesMod(c, PowerMod(k, t), t)

\* the k-th bit of the fraction of c / t
FractionBit(c, t, k) == (2 * Remainder(c, t, k - 1)) \div t

\* the first Precision + 1 significant bits of c / t, the exponent of the last
\* of them, and whether something is left after them
Quotient(c, t) ==
    LET whole == Bits(c \div t)
        first == IF whole # << >> THEN 1
                 ELSE CHOOSE k \in 1..32 :
                        /\ FractionBit(c, t, k) = 1
                        /\ \A h \in 1..(k - 1) : FractionBit(c, t, h) = 0
        last == first + Precision - Len(whole)
    IN  [b |-> whole \o [i \in 1..(last - first + 1) |-> FractionBit(c, t, first + i - 1)],
         e |-> -last,
         left |-> Remainder(c, t, last) # 0]

\* completed_requests / total_requests, for 1 <= c and 1 <= t
FloatDiv(c, t) ==
    LET q == Quotient(c, t)
    IN  RoundToNearestEven(q.b, q.e, q.left, Precision)

\* x * 100
FloatTimes100(x) == RoundToNearestEven(Times100(x.m), x.e, FALSE, Precision)

\* f"{x:.2f}" in hundredths: x * 100 rounded from the exact value of x to the
\* nearest integer, a tie to the even one
Format2f(x) ==
    LET b == Times100(x.m)
        k == -x.e
        int == IF k >= Len(b) THEN << >> ELSE SubSeq(b, 1, Len(b) - k)
        frac == IF k >= Len(b) THEN Zeros(k - Len(b)) \o b
                ELSE SubSeq(b, Len(b) - k + 1, Len(b))
        more == \E i \in 2..Len(frac) : frac[i] = 1
        up == frac # << >> /\ frac[1] = 1 /\ (more \/ Val(int) % 2 = 1)
    IN  Val(int) + (IF up THEN 1 ELSE 0)

\* f"{progress:.2f}": the number printed, in hundredths, for the float
\* progress = (c / t) * 100, pr being <<c * 100, t>>; before the first
\* iteration nothing is computed
Hundredths(pr) ==
    IF pr[1] = 0 THEN 0
    ELSE Format2f(FloatTimes100(FloatDiv(pr[1] \div 100, pr[2])))

\* the pair of the k-th iteration of the double loop
PairAt(k) ==
    <<ccodes[((k - 1) \div Len(icodes)) + 1], icodes[((k - 1) % Len(icodes)) + 1]>>

\* no iteration is left: one of the lists is exhausted or empty
LoopsDone == ci > Len(ccodes) \/ Len(icodes) = 0

InitAll ==
    /\ \/ /\ ccodes \in SeqsUpTo(AllCountries, MaxCodes)
          /\ icodes \in SeqsUpTo(Metrics, MaxCodes)
       \/ /\ ccodes = BigCodes
          /\ icodes = BigCodes
    /\ dpc = "loop"
    /\ ci = 1
    /\ mi = 1
    /\ completed = 0
    /\ total = Len(ccodes) * Len(icodes)
    /\ progress = <<0, 1>>
    /\ emitted = 0
    /\ nEmitted = 0
    /\ nCalls = 0
    /\ lastCall = << >>
    /\ lastOut = NotRun
    /\ outs = {}
    /\ sleeps = 0
    /\ all_data = << >>
    /\ CallIdle
    /\ ConcIdle
    /\ PerIdle
    /\ LogIdle
    /\ MainIdle

\* completed_requests += 1
Counted(c) == c + 1

\* progress = (completed_requests / total_requests) * 100
ProgressOfRemaining(c, t) == <<(t - c) * 100, t>>
Progress(c, t) == <<c * 100, t>>

\* if data: all_data[(country_code, indicator_code)] = data
StoredByCountry(d, key, data) ==
    IF data # << >>
    THEN [k \in DOMAIN d \cup {<<key[1]>>} |-> IF k = <<key[1]>> THEN data ELSE d[k]]
    ELSE d
StoredAlways(d, key, data) ==
    [k \in DOMAIN d \cup {key} |-> IF k = key THEN data ELSE d[k]]
Stored(d, key, data) ==
    IF data # << >>
    THEN [k \in DOMAIN d \cup {key} |-> IF k = key THEN data ELSE d[k]]
    ELSE d

\* the top of the loop body, up to the call of fetch_data
Iterate ==
    /\ dpc = "loop"
    /\ ~LoopsDone
    /\ nCalls < MaxCalls
    /\ completed' = Counted(completed)
    /\ progress' = Progress(completed', total)
    /\ emitted' = Hundredths(progress')
    /\ nEmitted' = nEmitted + 1
    /\ nCalls' = nCalls + 1
    /\ lastCall' = <<"fetch_data", ccodes[ci], icodes[mi]>>
    /\ lastOut' = NotRun
    /\ dpc' = "fetching"
    /\ UNCHANGED <<ccodes, icodes, ci, mi, total, outs, sleeps, all_data,
                   callVars, concVars, perVars, logVars, mainVars>>

\* fetch_data ends; the rest of the loop body
FetchEnds(out) ==
    /\ dpc = "fetching"
    /\ lastOut' = out
    /\ outs' = outs \cup {out}
    /\ IF out.kind = "raise"
       THEN \* the exception leaves download_all_data
            /\ dpc' = "raised"
            /\ UNCHANGED <<ci, mi, sleeps, all_data>>
       ELSE /\ all_data' = Stored(all_data, <<ccodes[ci], icodes[mi]>>, out.data)
            /\ sleeps' = sleeps + 1
            /\ IF mi < Len(icodes)
               THEN mi' = mi + 1 /\ ci' = ci
               ELSE mi' = 1 /\ ci' = ci + 1
            /\ dpc' = "loop"
    /\ UNCHANGED <<ccodes, icodes, completed, total, progress, emitted, nEmitted,
                   nCalls, lastCall, callVars, concVars, perVars, logVars, mainVars>>

\* return all_data
ReturnAll ==
    /\ dpc = "loop"
    /\ LoopsDone
    /\ dpc' = "returned"
    /\ UNCHANGED <<ccodes, icodes, ci, mi, completed, total, progress, emitted,
                   nEmitted, nCalls, lastCall, lastOut, outs, sleeps, all_data,
                   callVars, concVars, perVars, logVars, mainVars>>

NextAll ==
    \/ Iterate
    \/ \E out \in TaskOutcomes : FetchEnds(out)
    \/ ReturnAll

SpecAll == InitAll /\ [][NextAll]_vars

\* either of the two functions that build a result mapping
InitResultSets == InitConc \/ InitAll
NextResultSets == NextConc \/ NextAll
SpecResultSets == InitResultSets /\ [][NextResultSets]_vars

(***************************************************************************)
(* save_data_to_file and load_data_from_file, in the two modules.  A Python *)
(* str is the sequence of its characters; a key of the data is a str,       *)
(* [t |-> "str", s |-> chars], or a tuple of strs,                          *)
(* [t |-> "tuple", items |-> <<chars, ...>>]; a dict is the sequence of its *)
(* <<key, value>> items in insertion order.  The values are JSON values,    *)
(* which json.dump and json.load give back as they were.                    *)
(***************************************************************************)
\* the pieces an entity code is put together from, at most
MaxPieces == 3

\* "__DELIM__"
Delim == <<"_", "_", "D", "E", "L", "I", "M", "_", "_">>

RECURSIVE Concat(_)
Concat(q) == IF q = << >> THEN << >> ELSE Head(q) \o Concat(Tail(q))

\* the codes of the saved keys: entity codes put together from pieces of the
\* delimiter, and some metric codes
Pieces == {<<"_">>, <<"D", "E", "L", "I", "M">>}
EntityCodes == {Concat(q) : q \in SeqsUpTo(Pieces, MaxPieces)}
MetricCodes ==
    { << >>, <<"G">>, <<"D", "E", "L", "I", "M", "_", "_">>, <<"'">>, <<"'", "\"">>,
      <<"\\">>, <<"G">> \o Delim \o <<"G">> }
CountryNames == {<<"U", "S", "A">>, <<"G", "B", "R">>, <<"A">>}

Str(chars) == [t |-> "str", s |-> chars]
Tuple(q) == [t |-> "tuple", items |-> q]

\* what iterating over a key yields: the items of a tuple, the characters of
\* a str
Elements(key) ==
    IF key.t = "str"
    THEN [i \in 1..Len(key.s) |-> <<key.s[i]>>]
    ELSE key.items

\* sep.join(parts)
RECURSIVE Join(_, _)
Join(sep, parts) ==
    IF parts = << >> THEN << >>
    ELSE IF Len(parts) = 1 THEN parts[1]
    ELSE parts[1] \o sep \o Join(sep, Tail(parts))

StartsAt(s, sep, i) ==
    /\ i + Len(sep) - 1 <= Len(s)
    /\ SubSeq(s, i, i + Len(sep) - 1) = sep

\* s.split(sep): the occurrences of sep are taken from the left, none
\* overlapping the one before
RECURSIVE SplitFrom(_, _, _, _)
SplitFrom(s, sep, i, cur) ==
    IF i > Len(s) THEN <<cur>>
    ELSE IF StartsAt(s, sep, i)
    THEN <<cur>> \o SplitFrom(s, sep, i + Len(sep), << >>)
    ELSE SplitFrom(s, sep, i + 1, Append(cur, s[i]))
Split(s, sep) == SplitFrom(s, sep, 1, << >>)

\* json.dump / json.load of an object key: the text between the double quotes
RECURSIVE JsonEscape(_)
JsonEscape(s) ==
    IF s = << >> THEN << >>
    ELSE (IF Head(s) \in {"\"", "\\"} THEN <<"\\", Head(s)>> ELSE <<Head(s)>>)
            \o JsonEscape(Tail(s))
RECURSIVE JsonUnescape(_)
JsonUnescape(s) ==
    IF s = << >> THEN << >>
    ELSE IF Head(s) = "\\" /\ Len(s) >= 2
    THEN <<s[2]>> \o JsonUnescape(Tail(Tail(s)))
    ELSE <<Head(s)>> \o JsonUnescape(Tail(s))

\* repr of a str: in single quotes, in double quotes when it holds a single
\* quote and no double quote; the backslash and the quote used are escaped
QuoteOf(s) ==
    IF (\E i \in 1..Len(s) : s[i] = "'") /\ ~(\E i \in 1..Len(s) : s[i] = "\"")
    THEN "\""
    ELSE "'"
RECURSIVE Escaped(_, _)
Escaped(s, q) ==
    IF s = << >> THEN << >>
    ELSE (IF Head(s) \in {q, "\\"} THEN <<"\\", Head(s)>> ELSE <<Head(s)>>)
            \o Escaped(Tail(s), q)
ReprStr(s) == <<QuoteOf(s)>> \o Escaped(s, QuoteOf(s)) \o <<QuoteOf(s)>>

\* str(key) of a tuple of strs: "('USA', 'GDP')", "('USA',)", "()"
ReprTuple(q) ==
    IF Len(q) = 1 THEN <<"(">> \o ReprStr(q[1]) \o <<",", ")">>
    ELSE <<"(">> \o Join(<<",", " ">>, [i \in 1..Len(q) |-> ReprStr(q[i])]) \o <<")">>
StrOf(key) == IF key.t = "str" THEN key.s ELSE ReprTuple(key.items)

\* eval of the text of a str literal that opens at s[i - 1] with the quote q
NoValue == [ok |-> FALSE, val |-> << >>, next |-> 0]
RECURSIVE ScanLiteral(_, _, _, _)
ScanLiteral(s, i, q, got) ==
    IF i > Len(s) THEN NoValue
    ELSE IF s[i] = q THEN [ok |-> TRUE, val |-> got, next |-> i + 1]
    ELSE IF s[i] = "\\"
    THEN IF i + 1 > Len(s) THEN NoValue
         ELSE IF s[i + 1] \in {"\\", "'", "\""}
         THEN ScanLiteral(s, i + 2, q, Append(got, s[i + 1]))
         ELSE ScanLiteral(s, i + 2, q, got \o <<s[i], s[i + 1]>>)
    ELSE ScanLiteral(s, i + 1, q, Append(got, s[i]))

\* eval of a parenthesised display of str literals, from s[i] on; at is
\* "item" before the first item, "after" behind an item, "comma" behind a comma
RECURSIVE ScanItems(_, _, _, _)
ScanItems(s, i, items, at) ==
    IF i > Len(s) THEN [t |-> "raise"]
    ELSE IF s[i] = " " THEN ScanItems(s, i + 1, items, at)
    ELSE IF s[i] = ")"
    THEN IF i # Len(s) THEN [t |-> "raise"]
         ELSE IF at = "after" /\ Len(items) = 1
         THEN \* a str in parentheses
              Str(items[1])
         ELSE Tuple(items)
    ELSE IF s[i] = ","
    THEN IF at = "after" THEN ScanItems(s, i + 1, items, "comma") ELSE [t |-> "raise"]
    ELSE IF s[i] \in {"'", "\""}
    THEN LET lit == ScanLiteral(s, i + 1, s[i], << >>) IN
         IF ~lit.ok THEN [t |-> "raise"]
         ELSE IF at = "after"
         THEN \* adjacent literals are one str
              ScanItems(s, lit.next, [items EXCEPT ![Len(items)] = @ \o lit.val], "after")
         ELSE ScanItems(s, lit.next, Append(items, lit.val), "after")
    ELSE [t |-> "raise"]

\* eval(key) of a text that is a tuple display of str literals; any other text
\* is not followed here
Eval(s) ==
    IF Len(s) >= 2 /\ s[1] = "(" THEN ScanItems(s, 2, << >>, "item") ELSE [t |-> "raise"]

\* d[key] = value on a dict
DictSet(d, key, value) ==
    IF \E i \in 1..Len(d) : d[i][1] = key
    THEN [i \in 1..Len(d) |-> IF d[i][1] = key THEN <<key, value>> ELSE d[i]]
    ELSE Append(d, <<key, value>>)

\* the key under which save_data_to_file writes the value of key:
\* "__DELIM__".join(key) in world_bank/data_downloader.py, str(key) in
\* world_bank_data_downloader.py
SaveKey(v, key) ==
    IF v = "delim" THEN Join(Delim, Elements(key)) ELSE StrOf(key)

\* the key load_data_from_file makes of a key of the file:
\* tuple(key.split("__DELIM__")), eval(key)
LoadKey(v, text) ==
    IF v = "delim" THEN Tuple(Split(text, Delim)) ELSE Eval(text)

\* {SaveKey(key): value for key, value in data.items()}, then json.dump
RECURSIVE Serializable(_, _, _)
Serializable(v, items, out) ==
    IF items = << >> THEN out
    ELSE Serializable(v, Tail(items),
                      DictSet(out, JsonEscape(SaveKey(v, Head(items)[1])), Head(items)[2]))

\* json.load, then {LoadKey(key): value for key, value in data.items()}
RECURSIVE Deserialized(_, _, _)
Deserialized(v, items, out) ==
    IF items = << >> THEN out
    ELSE Deserialized(v, Tail(items),
                      DictSet(out, LoadKey(v, JsonUnescape(Head(items)[1])), Head(items)[2]))

\* a dict as a value: {indicator_code: observations}
Dict(items) == [t |-> "dict", items |-> items]

\* the data saved: the mapping download_all_data returns, keyed by
\* (country_code, indicator_code), and in world_bank/data_downloader.py also
\* the mapping main() and extract() build, keyed by country_code
PairKeys == {Tuple(<<e, m>>) : e \in EntityCodes, m \in MetricCodes}
NameKeys == {Str(n) : n \in CountryNames}
PairKeyed ==
    {<< >>} \cup {<<<<k, Countdown(1)>>>> : k \in PairKeys}
        \cup {<<<<kk[1], Countdown(1)>>, <<kk[2], Countdown(2)>>>> :
                kk \in {p \in PairKeys \X PairKeys : p[1] # p[2]}}
NameKeyed ==
    {<< >>} \cup {<<<<k, Dict(<<<<Str(<<"G">>), Countdown(1)>>>>)>>>> : k \in NameKeys}
        \cup {<<<<kk[1], Dict(<<<<Str(<<"G">>), Countdown(1)>>>>)>>,
                 <<kk[2], Dict(<< >>)>>>> :
                kk \in {p \in NameKeys \X NameKeys : p[1] # p[2]}}

InitPersist ==
    /\ variant \in {"delim", "literal"}
    /\ saved \in (IF variant = "delim" THEN PairKeyed \cup NameKeyed ELSE PairKeyed)
    /\ ppc = "start"
    /\ file = << >>
    /\ loaded = << >>
    /\ CallIdle
    /\ ConcIdle
    /\ AllIdle
    /\ LogIdle
    /\ MainIdle

\* save_data_to_file(data, filename)
Save ==
    /\ ppc = "start"
    /\ file' = Serializable(variant, saved, << >>)
    /\ ppc' = "saved"
    /\ UNCHANGED <<variant, saved, loaded, callVars, concVars, allVars, logVars, mainVars>>

\* load_data_from_file(filename)
Load ==
    /\ ppc = "saved"
    /\ IF \E i \in 1..Len(file) : LoadKey(variant, JsonUnescape(file[i][1])).t = "raise"
       THEN /\ ppc' = "failed"
            /\ loaded' = loaded
       ELSE /\ ppc' = "loaded"
            /\ loaded' = Deserialized(variant, file, << >>)
    /\ UNCHANGED <<variant, saved, file, callVars, concVars, allVars, logVars, mainVars>>

NextPersist ==
    \/ Save
    \/ Load

SpecPersist == InitPersist /\ [][NextPersist]_vars

(***************************************************************************)
(* SingletonLogger (src/utils/singleton_logger.py).  Threads call          *)
(* SingletonLogger(...) and run __new__ one statement at a time; the       *)
(* attributes of the object are Unset until a statement assigns them.      *)
(* Outside the calls, a test fixture may set _instance back to None.       *)
(***************************************************************************)
\* the threads, the calls followed in one run, the resets from outside
MaxThreads == 2
MaxCons == 2
MaxResets == 1

Threads == 1..MaxThreads

\* DEFAULT_FORMAT, self.__class__.__name__
DEFAULT_FORMAT == "%(asctime)s - %(threadName)s - %(levelname)s - %(message)s"
ClassName == "SingletonLogger"

\* the arguments of a call: logger_name, log_level ("omitted" when the call
\* leaves it out), log_format
CustomFormat == "%(levelname)s: %(message)s"
Args(name, level, format) ==
    [logger_name |-> name, log_level |-> level, log_format |-> format]
CallArgs ==
    { Args(Nil, "omitted", Nil),
      Args("TestLogger", "omitted", Nil),
      Args(Nil, "INFO", Nil),
      Args(Nil, "omitted", CustomFormat),
      Args("TestLogger", "INFO", "") }
LoggerNames == {ClassName} \cup ({a.logger_name : a \in CallArgs} \ {Nil, ""})

\* def __new__(cls, logger_name=None, log_level=logging.DEBUG, log_format=None)
BoundWithoutDefault(a) == a
Bound(a) == [a EXCEPT !.log_level = IF @ = "omitted" THEN "DEBUG" ELSE @]

\* x or y
Truthy(x) == x \notin {Nil, ""}
Or(x, y) == IF Truthy(x) THEN x ELSE y

\* logging.getLogger on a name not used before: level NOTSET, no handler
FreshLoggers == [n \in LoggerNames |-> [level |-> "NOTSET", handlers |-> << >>]]

\* super().__new__(cls): an object without attributes; done records that
\* _initialize_logger has run to its end on it
NewObject(id) == [None EXCEPT !.id = id]

\* self._logger = logging.getLogger(logger_name or self.__class__.__name__)
GetLogger(inst, a) == [inst EXCEPT !.logger = Or(a.logger_name, ClassName)]

\* self._logger.setLevel(level)
SetLevel(lgs, inst, level) == [lgs EXCEPT ![inst.logger].level = level]

\* self._log_level = log_level
SetLogLevel(inst, a) == [inst EXCEPT !.log_level = a.log_level]

\* self._log_format = log_format or self.DEFAULT_FORMAT
SetLogFormat(inst, a) == [inst EXCEPT !.log_format = Or(a.log_format, DEFAULT_FORMAT)]

\* if not self._logger.handlers:
NoHandlerUnchecked(lgs, inst) == TRUE
NoHandler(lgs, inst) == lgs[inst.logger].handlers = << >>

\* console_handler = logging.StreamHandler(): level NOTSET, no formatter;
\* formatter is the local of that name
StreamHandler == [level |-> "NOTSET", format |-> Nil, formatter |-> Nil]

\* console_handler.setLevel(self._log_level)
HandlerLevel(h, inst) == [h EXCEPT !.level = inst.log_level]

\* formatter = logging.Formatter(self._log_format)
NewFormatter(h, inst) == [h EXCEPT !.formatter = inst.log_format]

\* console_handler.setFormatter(formatter)
HandlerFormatter(h) == [h EXCEPT !.format = h.formatter]

\* self._logger.addHandler(console_handler)
AddHandler(lgs, inst, h) ==
    [lgs EXCEPT ![inst.logger].handlers =
        Append(@, [level |-> h.level, format |-> h.format])]

\* _create_handler, when no other call overlaps
CreateHandler(lgs, inst) ==
    IF NoHandler(lgs, inst)
    THEN AddHandler(lgs, inst,
                    HandlerFormatter(NewFormatter(HandlerLevel(StreamHandler, inst), inst)))
    ELSE lgs

\* self._log_format = log_format or self._log_format
KeepLogFormat(inst, a) == [inst EXCEPT !.log_format = Or(a.log_format, @)]

\* self._logger.handlers[0].setLevel(self._log_level)
SetHandlerLevel(lgs, inst) ==
    [lgs EXCEPT ![inst.logger].handlers[1].level = inst.log_level]

\* self._logger.handlers[0].setFormatter(logging.Formatter(self._log_format))
SetHandlerFormatter(lgs, inst) ==
    [lgs EXCEPT ![inst.logger].handlers[1].format = inst.log_format]

\* lines 41 to 43 of _update_logger, when no other call overlaps
UpdateHandler(lgs, inst) ==
    IF lgs[inst.logger].handlers # << >>
    THEN SetHandlerFormatter(SetHandlerLevel(lgs, inst), inst)
    ELSE lgs

\* a call of SingletonLogger(...) that no other call overlaps, as one step
Initialized(id, lgs, a) ==
    LET i1 == SetLogFormat(SetLogLevel(GetLogger(NewObject(id), a), a), a)
        l1 == SetLevel(lgs, i1, a.log_level)
    IN  [inst |-> [i1 EXCEPT !.done = TRUE], lgs |-> CreateHandler(l1, i1)]
Updated(inst, lgs, a) ==
    LET i1 == KeepLogFormat(SetLogLevel(inst, a), a)
    IN  [inst |-> i1, lgs |-> UpdateHandler(SetLevel(lgs, i1, i1.log_level), i1)]
Constructed(inst, id, lgs, a) ==
    IF inst = None THEN Initialized(id, lgs, a) ELSE Updated(inst, lgs, a)

InitLog ==
    /\ instance = None
    /\ loggers = FreshLoggers
    /\ lock = Free
    /\ tpc = [t \in Threads |-> "idle"]
    /\ targs = [t \in Threads |-> NoArgs]
    /\ tret = [t \in Threads |-> NoReturn]
    /\ thandler = [t \in Threads |-> StreamHandler]
    /\ made = 0
    /\ inits = 0
    /\ ncons = 0
    /\ lastArgs = NoArgs
    /\ overlap = FALSE
    /\ resets = 0
    /\ CallIdle
    /\ ConcIdle
    /\ AllIdle
    /\ PerIdle
    /\ MainIdle

Others == <<callVars, concVars, allVars, perVars, mainVars>>

\* a thread calls SingletonLogger(...)
Construct(t, a) ==
    /\ tpc[t] = "idle"
    /\ ncons < MaxCons
    /\ tpc' = [tpc EXCEPT ![t] = "line19"]
    /\ targs' = [targs EXCEPT ![t] = Bound(a)]
    /\ lastArgs' = a
    /\ ncons' = ncons + 1
    /\ overlap' = (overlap \/ \E u \in Threads : tpc[u] # "idle")
    /\ UNCHANGED <<instance, loggers, lock, tret, made, inits, resets, thandler, Others>>

\* if not cls._instance:
FirstCheck(t) ==
    /\ tpc[t] = "line19"
    /\ tpc' = [tpc EXCEPT ![t] = IF instance = None THEN "line20" ELSE "line38"]
    /\ UNCHANGED <<instance, loggers, lock, targs, tret, made, inits, ncons,
                   lastArgs, overlap, resets, thandler, Others>>

\* with cls._lock:
Acquire(t) ==
    /\ tpc[t] = "line20"
    /\ lock \in {Free, t}
    /\ lock' = t
    /\ tpc' = [tpc EXCEPT ![t] = "line21"]
    /\ UNCHANGED <<instance, loggers, targs, tret, made, inits, ncons,
                   lastArgs, overlap, resets, thandler, Others>>

\* if not cls._instance: under the lock; when it is set the with block ends
SecondCheck(t) ==
    /\ tpc[t] = "line21"
    /\ IF instance = None
       THEN /\ tpc' = [tpc EXCEPT ![t] = "line22"]
            /\ lock' = lock
       ELSE /\ tpc' = [tpc EXCEPT ![t] = "line26"]
            /\ lock' = Free
    /\ UNCHANGED <<instance, loggers, targs, tret, made, inits, ncons,
                   lastArgs, overlap, resets, thandler, Others>>

\* cls._instance = super().__new__(cls)
Create(t) ==
    /\ tpc[t] = "line22"
    /\ made' = made + 1
    /\ instance' = NewObject(made')
    /\ inits' = inits + 1
    /\ tpc' = [tpc EXCEPT ![t] = "line30"]
    /\ UNCHANGED <<loggers, lock, targs, tret, ncons, lastArgs, overlap, resets,
                   thandler, Others>>

\* cls._instance._initialize_logger(...): its statements up to the call of
\* _create_handler, one a step
InitializeLogger(t) ==
    /\ tpc[t] \in {"line30", "line31", "line32", "line33"}
    /\ instance' =
          CASE tpc[t] = "line30" -> GetLogger(instance, targs[t])
            [] tpc[t] = "line32" -> SetLogLevel(instance, targs[t])
            [] tpc[t] = "line33" -> SetLogFormat(instance, targs[t])
            [] OTHER -> instance
    /\ loggers' =
          IF tpc[t] = "line31" THEN SetLevel(loggers, instance, targs[t].log_level)
          ELSE loggers
    /\ tpc' = [tpc EXCEPT ![t] =
                 CASE tpc[t] = "line30" -> "line31"
                   [] tpc[t] = "line31" -> "line32"
                   [] tpc[t] = "line32" -> "line33"
                   [] OTHER -> "line47"]
    /\ UNCHANGED <<lock, targs, tret, thandler, made, inits, ncons, lastArgs,
                   overlap, resets, Others>>

\* _create_handler: its statements, one a step; with its return its local
\* is gone and _initialize_logger has run to its end
CreateHandlerStep(t) ==
    /\ tpc[t] \in {"line47", "line48", "line49", "line50", "line51", "line52"}
    /\ thandler' = [thandler EXCEPT ![t] =
                      CASE tpc[t] = "line48" -> StreamHandler
                        [] tpc[t] = "line49" -> HandlerLevel(@, instance)
                        [] tpc[t] = "line50" -> NewFormatter(@, instance)
                        [] tpc[t] = "line51" -> HandlerFormatter(@)
                        [] tpc[t] = "line52" -> StreamHandler
                        [] OTHER -> @]
    /\ loggers' = IF tpc[t] = "line52" THEN AddHandler(loggers, instance, thandler[t])
                  ELSE loggers
    /\ instance' =
          IF tpc[t] = "line52" \/ (tpc[t] = "line47" /\ ~NoHandler(loggers, instance))
          THEN [instance EXCEPT !.done = TRUE]
          ELSE instance
    /\ tpc' = [tpc EXCEPT ![t] =
                 CASE tpc[t] = "line47" ->
                        IF NoHandler(loggers, instance) THEN "line48" ELSE "exit"
                   [] tpc[t] = "line48" -> "line49"
                   [] tpc[t] = "line49" -> "line50"
                   [] tpc[t] = "line50" -> "line51"
                   [] tpc[t] = "line51" -> "line52"
                   [] OTHER -> "exit"]
    /\ UNCHANGED <<lock, targs, tret, made, inits, ncons, lastArgs, overlap, resets,
                   Others>>

\* the with block ends: cls._lock is released
Release(t) ==
    /\ tpc[t] = "exit"
    /\ lock' = Free
    /\ tpc' = [tpc EXCEPT ![t] = "line26"]
    /\ UNCHANGED <<instance, loggers, targs, tret, thandler, made, inits, ncons,
                   lastArgs, overlap, resets, Others>>

\* the statement of _update_logger at pc raises AttributeError: it reads an
\* attribute that no statement has assigned yet
Raises(pcLine, inst, a) ==
    \/ pcLine = "line39" /\ ~Truthy(a.log_format) /\ inst.log_format = Unset
    \/ pcLine = "line40" /\ inst.logger = Unset

\* cls._instance._update_logger(log_level, log_format): its statements, one a
\* step, without the lock
UpdateLogger(t) ==
    /\ tpc[t] \in {"line38", "line39", "line40", "line41", "line42", "line43"}
    /\ IF Raises(tpc[t], instance, targs[t])
       THEN /\ tpc' = [tpc EXCEPT ![t] = "idle"]
            /\ tret' = [tret EXCEPT ![t] = [kind |-> "AttributeError", id |-> 0]]
            /\ targs' = [targs EXCEPT ![t] = NoArgs]
            /\ UNCHANGED <<instance, loggers>>
       ELSE /\ instance' =
                  CASE tpc[t] = "line38" -> SetLogLevel(instance, targs[t])
                    [] tpc[t] = "line39" -> KeepLogFormat(instance, targs[t])
                    [] OTHER -> instance
            /\ loggers' =
                  CASE tpc[t] = "line40" -> SetLevel(loggers, instance, instance.log_level)
                    [] tpc[t] = "line42" -> SetHandlerLevel(loggers, instance)
                    [] tpc[t] = "line43" -> SetHandlerFormatter(loggers, instance)
                    [] OTHER -> loggers
            /\ tpc' = [tpc EXCEPT ![t] =
                         CASE tpc[t] = "line38" -> "line39"
                           [] tpc[t] = "line39" -> "line40"
                           [] tpc[t] = "line40" -> "line41"
                           [] tpc[t] = "line41" ->
                                IF loggers[instance.logger].handlers # << >>
                                THEN "line42" ELSE "line26"
                           [] tpc[t] = "line42" -> "line43"
                           [] OTHER -> "line26"]
            /\ UNCHANGED <<targs, tret>>
    /\ UNCHANGED <<lock, thandler, made, inits, ncons, lastArgs, overlap,
                   resets, Others>>

\* return cls._instance
ReturnInstance(t) ==
    /\ tpc[t] = "line26"
    /\ tret' = [tret EXCEPT ![t] = [kind |-> "instance", id |-> instance.id]]
    /\ tpc' = [tpc EXCEPT ![t] = "idle"]
    /\ targs' = [targs EXCEPT ![t] = NoArgs]
    /\ UNCHANGED <<instance, loggers, lock, made, inits, ncons, lastArgs,
                   overlap, resets, thandler, Others>>

\* SingletonLogger._instance = None, between calls (the fixture of the tests)
Reset ==
    /\ \A t \in Threads : tpc[t] = "idle"
    /\ instance # None
    /\ resets < MaxResets
    /\ instance' = None
    /\ resets' = resets + 1
    /\ UNCHANGED <<loggers, lock, tpc, targs, tret, made, inits, ncons, lastArgs,
                   overlap, thandler, Others>>

NextLog ==
    \/ \E t \in Threads, a \in CallArgs : Construct(t, a)
    \/ \E t \in Threads : FirstCheck(t)
    \/ \E t \in Threads : Acquire(t)
    \/ \E t \in Threads : SecondCheck(t)
    \/ \E t \in Threads : Create(t)
    \/ \E t \in Threads : InitializeLogger(t)
    \/ \E t \in Threads : CreateHandlerStep(t)
    \/ \E t \in Threads : Release(t)
    \/ \E t \in Threads : UpdateLogger(t)
    \/ \E t \in Threads : ReturnInstance(t)
    \/ Reset

SpecLog == InitLog /\ [][NextLog]_vars

(***************************************************************************)
(* main() (main.py) and extract() (world_bank/data_downloader_by_country.py) *)
(* with the downloader of world_bank/data_downloader.py: what the calls on *)
(* the downloader return is an input; saving and loading are the           *)
(* conversions of save_data_to_file and load_data_from_file.               *)
(***************************************************************************)
\* country_code = 'AUS'
AUS == <<"A", "U", "S">>

\* the indicator ids the list request can answer
IndicatorNames == {<<"G">>, <<"P">>}

\* the lists get_country_codes and get_indicators can return
CountryLists == SeqsUpTo(CountryNames, MaxCodes)
IndicatorLists == SeqsUpTo(IndicatorNames, MaxMetrics)

\* how a call of get_country_codes or get_indicators can end: it returns a
\* list, or its third attempt has failed and RetryError leaves it
ListOutcomes(lists) ==
    [kind : {"return"}, value : lists] \cup {[kind |-> "raise", value |-> << >>]}

\* filename=f'../data/raw/{country_code}_world_bank_data.json', and the
\* default of save_data_to_file
FileOf(code) == <<"../data/raw/", code, "_world_bank_data.json">>
DefaultFile == <<"../data/raw/world_bank_data_optimised.json">>

\* a series that is not empty
SomeSeries == Countdown(1)

\* the mappings fetch_data_concurrently can return for a list of indicator
\* codes: the codes of a subset, each with a series that is not empty, in the
\* order in which their futures completed
Orderings(S) ==
    {q \in SeqsUpTo(S, Cardinality(S)) :
        Len(q) = Cardinality(S) /\ \A i, j \in 1..Len(q) : q[i] = q[j] => i = j}
DispatchResults(list) ==
    {Dict([i \in 1..Len(q) |-> <<Str(q[i]), SomeSeries>>]) :
        q \in UNION {Orderings(S) : S \in SUBSET Range(list)}}

\* all_data[country_code] = country_data
Assigned(all, code, data) == DictSet(all, Str(code), data)

\* the for loop over country_codes has ended
LoopEnded(k, list) == k = Len(list)

\* the logger.info lines of the loops over loaded_data
RECURSIVE IndicatorLines(_)
IndicatorLines(items) ==
    IF items = << >> THEN 0
    ELSE LET data == Head(items)[2]
         IN  1 + (IF Len(data) < 3 THEN Len(data) ELSE 3) + 1 + IndicatorLines(Tail(items))
RECURSIVE ReportLines(_)
ReportLines(d) ==
    IF d = << >> THEN 0
    ELSE 1 + IndicatorLines(Head(d)[2].items) + ReportLines(Tail(d))

\* the calls on the downloader and their returns, as mlog records them
Event(op, arg) == [op |-> op, arg |-> arg]

LogStart ==
    /\ instance = None
    /\ loggers = FreshLoggers
    /\ lock = Free
    /\ tpc = << >>
    /\ targs = << >>
    /\ tret = << >>
    /\ thandler = << >>
    /\ made = 0
    /\ inits = 0
    /\ ncons = 0
    /\ lastArgs = NoArgs
    /\ overlap = FALSE
    /\ resets = 0

InitMain ==
    /\ prog \in {"main", "extract"}
    /\ mpc = "start"
    /\ country_codes = << >>
    /\ indicator_codes = << >>
    /\ indicators = << >>
    /\ mk = 0
    /\ country_data = << >>
    /\ aggregate = << >>
    /\ mlog = << >>
    /\ infos = 0
    /\ written = << >>
    /\ variant = "delim"
    /\ ppc = "start"
    /\ saved = << >>
    /\ file = << >>
    /\ loaded = << >>
    /\ LogStart
    /\ CallIdle
    /\ ConcIdle
    /\ AllIdle

\* SingletonLogger() by the one thread of main() or extract()
LoggerConstructed ==
    LET a == Args(Nil, "omitted", Nil)
        c == Constructed(instance, made + 1, loggers, Bound(a))
    IN  /\ instance' = c.inst
        /\ loggers' = c.lgs
        /\ made' = IF instance = None THEN made + 1 ELSE made
        /\ inits' = IF instance = None THEN inits + 1 ELSE inits
        /\ ncons' = ncons + 1
        /\ lastArgs' = a
        /\ UNCHANGED <<lock, tpc, targs, tret, thandler, overlap, resets>>

\* logger = SingletonLogger().get_logger()
SetUpLogger ==
    /\ mpc = "start"
    /\ LoggerConstructed
    /\ mpc' = "downloader"
    /\ UNCHANGED <<prog, country_codes, indicator_codes, indicators, mk,
                   country_data, aggregate, mlog, infos, written,
                   callVars, concVars, allVars, perVars>>

\* downloader = WorldBankDataDownloader(): __init__ up to self.logger
NewDownloader ==
    /\ mpc = "downloader"
    /\ LoggerConstructed
    /\ mpc' = "init25"
    /\ UNCHANGED <<prog, country_codes, indicator_codes, indicators, mk,
                   country_data, aggregate, mlog, infos, written,
                   callVars, concVars, allVars, perVars>>

\* self.country_codes = self.get_country_codes(): a list, or RetryError
GetCountryCodes(out) ==
    /\ mpc = "init25"
    /\ mlog' = Append(mlog, Event("get_country_codes", << >>))
    /\ IF out.kind = "raise"
       THEN /\ mpc' = "raised"
            /\ country_codes' = country_codes
       ELSE /\ mpc' = "init26"
            /\ country_codes' = out.value
    /\ UNCHANGED <<prog, indicator_codes, indicators, mk, country_data, aggregate,
                   infos, written, callVars, concVars, allVars, perVars, logVars>>

\* self.indicator_codes = self.get_indicators(): a list, or RetryError
GetIndicatorCodes(out) ==
    /\ mpc = "init26"
    /\ mlog' = Append(mlog, Event("get_indicators", << >>))
    /\ IF out.kind = "raise"
       THEN /\ mpc' = "raised"
            /\ indicator_codes' = indicator_codes
       ELSE /\ mpc' = IF prog = "main" THEN "loop" ELSE "line18"
            /\ indicator_codes' = out.value
    /\ UNCHANGED <<prog, country_codes, indicators, mk, country_data, aggregate,
                   infos, written, callVars, concVars, allVars, perVars, logVars>>

\* extract: indicators = downloader.get_indicators()
GetIndicators(out) ==
    /\ mpc = "line18"
    /\ mlog' = Append(mlog, Event("get_indicators", << >>))
    /\ IF out.kind = "raise"
       THEN /\ mpc' = "raised"
            /\ indicators' = indicators
       ELSE /\ mpc' = "line21"
            /\ indicators' = out.value
    /\ UNCHANGED <<prog, country_codes, indicator_codes, mk, country_data, aggregate,
                   infos, written, callVars, concVars, allVars, perVars, logVars>>

\* main: logger.info(...); downloader.fetch_data_concurrently(country_code,
\* indicator_codes) is called
Dispatch ==
    /\ prog = "main"
    /\ mpc = "loop"
    /\ ~LoopEnded(mk, country_codes)
    /\ infos' = infos + 1
    /\ mlog' = Append(mlog, Event("fetch_data_concurrently", country_codes[mk + 1]))
    /\ mpc' = "line28"
    /\ UNCHANGED <<prog, country_codes, indicator_codes, indicators, mk, country_data,
                   aggregate, written, callVars, concVars, allVars, perVars, logVars>>

\* main: the call returns; all_data[country_code] = country_data
DispatchReturns(r) ==
    /\ prog = "main"
    /\ mpc = "line28"
    /\ country_data' = r
    /\ aggregate' = Assigned(aggregate, country_codes[mk + 1], r)
    /\ mlog' = Append(mlog, Event("returned", country_codes[mk + 1]))
    /\ mk' = mk + 1
    /\ mpc' = "loop"
    /\ UNCHANGED <<prog, country_codes, indicator_codes, indicators, infos, written,
                   callVars, concVars, allVars, perVars, logVars>>

\* main: downloader.save_data_to_file(all_data)
SaveAll ==
    /\ prog = "main"
    /\ mpc = "loop"
    /\ LoopEnded(mk, country_codes)
    /\ saved' = aggregate
    /\ written' = aggregate
    /\ file' = Serializable(variant, aggregate, << >>)
    /\ ppc' = "saved"
    /\ mlog' = Append(mlog, Event("save_data_to_file", DefaultFile))
    /\ mpc' = "line34"
    /\ UNCHANGED <<prog, country_codes, indicator_codes, indicators, mk, country_data,
                   aggregate, infos, variant, loaded, callVars, concVars, allVars,
                   logVars>>

\* main: logger.info("Data download and save completed.")
Completed ==
    /\ prog = "main"
    /\ mpc = "line34"
    /\ infos' = infos + 1
    /\ mpc' = "returned"
    /\ UNCHANGED <<prog, country_codes, indicator_codes, indicators, mk, country_data,
                   aggregate, mlog, written, callVars, concVars, allVars, perVars,
                   logVars>>

\* extract: downloader.fetch_data_concurrently(country_code, indicators) is
\* called
DispatchOne ==
    /\ prog = "extract"
    /\ mpc = "line21"
    /\ mlog' = Append(mlog, Event("fetch_data_concurrently", AUS))
    /\ mpc' = "line21 called"
    /\ UNCHANGED <<prog, country_codes, indicator_codes, indicators, mk, country_data,
                   aggregate, infos, written, callVars, concVars, allVars, perVars,
                   logVars>>

\* extract: the call returns; australia_data = its result
DispatchOneReturns ==
    /\ prog = "extract"
    /\ mpc = "line21 called"
    /\ \E r \in DispatchResults(indicators) : country_data' = r
    /\ mlog' = Append(mlog, Event("returned", AUS))
    /\ mpc' = "line25"
    /\ UNCHANGED <<prog, country_codes, indicator_codes, indicators, mk, aggregate,
                   infos, written, callVars, concVars, allVars, perVars, logVars>>

\* extract: downloader.save_data_to_file({country_code: australia_data},
\* filename=filename)
SaveOne ==
    /\ prog = "extract"
    /\ mpc = "line25"
    /\ saved' = Assigned(<< >>, AUS, country_data)
    /\ file' = Serializable(variant, saved', << >>)
    /\ ppc' = "saved"
    /\ mlog' = Append(mlog, Event("save_data_to_file", FileOf(AUS)))
    /\ mpc' = "line28"
    /\ UNCHANGED <<prog, country_codes, indicator_codes, indicators, mk, country_data,
                   aggregate, infos, written, variant, loaded, callVars, concVars,
                   allVars, logVars>>

\* extract: loaded_data = downloader.load_data_from_file(filename=filename)
LoadBack ==
    /\ prog = "extract"
    /\ mpc = "line28"
    /\ loaded' = Deserialized(variant, file, << >>)
    /\ ppc' = "loaded"
    /\ mlog' = Append(mlog, Event("load_data_from_file", FileOf(AUS)))
    /\ mpc' = "line31"
    /\ UNCHANGED <<prog, country_codes, indicator_codes, indicators, mk, country_data,
                   aggregate, infos, written, variant, saved, file, callVars,
                   concVars, allVars, logVars>>

\* for country, indicators in loaded_data.items(): the local 'indicators' is
\* bound anew to the value of each key, and keeps that of the last
Rebound(ind, d) == IF d = << >> THEN ind ELSE d[Len(d)][2]

\* extract: the loops that log loaded_data
Report ==
    /\ prog = "extract"
    /\ mpc = "line31"
    /\ infos' = infos + ReportLines(loaded)
    /\ indicators' = Rebound(indicators, loaded)
    /\ mpc' = "returned"
    /\ UNCHANGED <<prog, country_codes, indicator_codes, mk, country_data,
                   aggregate, mlog, written, callVars, concVars, allVars, perVars,
                   logVars>>

NextMain ==
    \/ SetUpLogger
    \/ NewDownloader
    \/ \E out \in ListOutcomes(CountryLists) : GetCountryCodes(out)
    \/ \E out \in ListOutcomes(IndicatorLists) : GetIndicatorCodes(out)
    \/ \E out \in ListOutcomes(IndicatorLists) : GetIndicators(out)
    \/ Dispatch
    \/ \E r \in DispatchResults(indicator_codes) : DispatchReturns(r)
    \/ SaveAll
    \/ Completed
    \/ DispatchOne
    \/ DispatchOneReturns
    \/ SaveOne
    \/ LoadBack
    \/ Report

SpecMain == InitMain /\ [][NextMain]_vars

(***************************************************************************)
(* Properties of one invocation (SpecCall).                                *)
(***************************************************************************)
Done == pc \in {"returned", "raised"}

LastReq == reqs[Len(reqs)]

\* the metadata and the items of the k-th answer of the current attempt
MetaOf(k) == reqs[k].resp.body[1]
ItemsOf(k) == reqs[k].resp.body[2]

\* the concatenation of a sequence of lists
RECURSIVE Flatten(_)
Flatten(ls) == IF ls = << >> THEN << >> ELSE Head(ls) \o Flatten(Tail(ls))

\* the items of the first n answers of the current attempt, in page order
PagesServed(n) == Flatten([k \in 1..n |-> ItemsOf(k)])

\* every answer of the current attempt is a page with items whose metadata
\* names the page that was asked for, out of N pages
HonestAnswers(N) ==
    \A k \in 1..Len(reqs) :
        /\ FetchClass(reqs[k].resp) = "page"
        /\ MetaOf(k).page = reqs[k].page
        /\ MetaOf(k).pages = N

\* C1: when the server answers the request for page k with a non-empty item
\* list and metadata page = k, pages = N, fetch_data asks for the pages 1, 2,
\* ..., N in this order, for no other, and returns the concatenation of the N
\* item lists in page order; it goes on exactly until the answer that reports
\* page >= pages.
C1_ExactlyNPagesInOrder ==
    \A N \in 1..MaxPage :
        (fn = "fetch_data" /\ reqs # << >> /\ seen = {"page"} /\ HonestAnswers(N)) =>
            /\ attempt = 1
            /\ totalReqs = Len(reqs)
            /\ Len(reqs) <= N
            /\ \A k \in 1..Len(reqs) : reqs[k].page = k
            /\ IF Len(reqs) = N
               THEN pc = "returned" /\ result = PagesServed(N)
               ELSE pc = "running" /\ acc = PagesServed(Len(reqs))

C1_Witness ==
    /\ fn = "fetch_data"
    /\ pc = "returned"
    /\ seen = {"page"}
    /\ HonestAnswers(MaxPage)
    /\ Len(reqs) = MaxPage
    /\ Len(result) > Len(ItemsOf(1))

\* C2: a request that fails with a transport or HTTP failure is attempted again,
\* so that the invocation gives up on such a failure only at the third attempt,
\* while a parsed page with an empty item list ends fetch_data without a retry.
C2_FailureTriggersRetry ==
    /\ (Done /\ reqs # << >> /\ LastReq.resp.fault # "none") => attempt = MAX_ATTEMPTS
    /\ (fn = "fetch_data" /\ reqs # << >> /\ FetchClass(LastReq.resp) = "empty")
            => pc = "returned"

\* C3: when the request for page k of fetch_data ends in a transport or HTTP
\* failure, fetch_data raises nothing and returns the records of the pages
\* 1..k-1 in page order (the empty list when k = 1).
C3_PartialResultOnFailure ==
    (fn = "fetch_data" /\ reqs # << >> /\ LastReq.resp.fault # "none") =>
        /\ pc = "returned"
        /\ result = PagesServed(Len(reqs) - 1)
        /\ (Len(reqs) = 1 => result = << >>)

C3_Witness ==
    /\ fn = "fetch_data"
    /\ pc = "returned"
    /\ Len(reqs) = MaxReq
    /\ LastReq.resp.fault = "http"
    /\ result # << >>

\* C4: whatever the answers, an invocation runs its body at most 3 times: the
\* attempt number never exceeds 3, a list function issues at most 3 requests,
\* and the invocation gives up with RetryError exactly at the third attempt.
C4_AtMostThreeAttempts ==
    /\ attempt \in 1..MAX_ATTEMPTS
    /\ (fn \in RefFns => totalReqs <= MAX_ATTEMPTS)
    /\ (pc = "raised" => attempt = MAX_ATTEMPTS)

C4_Witness ==
    /\ pc = "raised"
    /\ attempt = MAX_ATTEMPTS
    /\ fn = "get_country_codes"
    /\ totalReqs = MAX_ATTEMPTS

\* C5: when every request of get_country_codes / get_indicators fails with a
\* transport or HTTP failure, the function returns the empty list and raises
\* nothing.
C5_ListFaultGivesEmpty ==
    (fn \in RefFns /\ totalReqs >= 1 /\ seen = {"fault"}) =>
        /\ pc = "returned"
        /\ result = << >>

C5_Witness ==
    /\ fn = "get_indicators"
    /\ pc = "returned"
    /\ seen = {"fault"}
    /\ LastReq.resp.fault = "transport"

\* C6: when the body of the reference list is malformed (fewer than two
\* elements, or an item without id) at every attempt, get_country_codes /
\* get_indicators retry and, after the last attempt, return the empty list
\* instead of raising.
C6_MalformedListGivesEmpty ==
    (fn \in RefFns /\ Done /\ seen # {} /\ seen \subseteq {"short", "noid"}) =>
        /\ attempt = MAX_ATTEMPTS
        /\ pc = "returned"
        /\ result = << >>

\* C7: in fetch_data a page of malformed shape (fewer than two elements, items
\* empty or absent, metadata without page / pages) ends the pagination: the
\* records accumulated so far are returned and nothing is raised.
C7_MalformedPageEndsPagination ==
    (fn = "fetch_data" /\ Done /\ reqs # << >>
        /\ FetchClass(LastReq.resp) \in {"short", "empty", "nometa"}) =>
        /\ pc = "returned"
        /\ result = PagesServed(Len(reqs) - 1)

\* C8: when the first page answered has an empty item list, fetch_data returns
\* the empty list after exactly one request: no retry, no second page.
C8_EmptyFirstPage ==
    (fn = "fetch_data" /\ firstResp = "empty") =>
        /\ pc = "returned"
        /\ result = << >>
        /\ totalReqs = 1
        /\ attempt = 1

C8_Witness ==
    /\ fn = "fetch_data"
    /\ firstResp = "empty"
    /\ pc = "returned"
    /\ MetaOf(1) \in Metas
    /\ MetaOf(1).page < MetaOf(1).pages

\* every answer of the current attempt but the last names the page asked for
EchoesPage == \A j \in 1..(Len(reqs) - 1) : MetaOf(j).page = reqs[j].page

\* C9 as stated: within one run of the loop, whatever the server does, no page
\* is requested twice and a further request is made only while the number of
\* requests is below the pages count the server reported last.
C9_RequestsWithinReportedPages ==
    fn = "fetch_data" =>
        /\ \A k \in 1..Len(reqs) : reqs[k].page = k
        /\ \A k \in 2..Len(reqs) : k <= MetaOf(k - 1).pages

\* C9, amended: within one run of the loop the pages 1, 2, 3, ... are requested
\* in this order, none twice; a further request is made only after an answer
\* that reports page < pages; and as long as the server names in 'page' the
\* page that was asked for, the number of requests stays within the pages count
\* it reported last.
C9_BoundedWhenPageEchoed ==
    fn = "fetch_data" =>
        /\ \A k \in 1..Len(reqs) : reqs[k].page = k
        /\ \A k \in 2..Len(reqs) : MetaOf(k - 1).page < MetaOf(k - 1).pages
        /\ (EchoesPage => \A k \in 2..Len(reqs) : k <= MetaOf(k - 1).pages)

C9_Witness ==
    /\ fn = "fetch_data"
    /\ pc = "returned"
    /\ Len(reqs) = 2
    /\ EchoesPage
    /\ MetaOf(1).pages = 2
    /\ FetchClass(LastReq.resp) = "page"
    /\ MetaOf(2).page >= MetaOf(2).pages

(***************************************************************************)
(* Properties of fetch_data_concurrently (SpecConc).                       *)
(***************************************************************************)
\* C10: fetch_data_concurrently submits one fetch_data task per element of the
\* metric list, in list order, each with the given country, none twice and none
\* left out on return, and the keys of the result are metrics of the list.
C10_OneTaskPerMetric ==
    /\ Len(submits) <= Len(codes)
    /\ \A i \in 1..Len(submits) : submits[i] = <<"fetch_data", country, codes[i]>>
    /\ (cpc = "returned" => Len(submits) = Len(codes))
    /\ DOMAIN results \subseteq Range(codes)

C10_Witness ==
    /\ cpc = "returned"
    /\ Len(codes) = MaxMetrics
    /\ codes[1] # codes[2]
    /\ Len(submits) = MaxMetrics
    /\ DOMAIN results = {codes[2]}

(***************************************************************************)
(* Properties of the collection loop (SpecConc).                           *)
(***************************************************************************)
\* the tasks that returned a non-empty series, among the tasks in I
NonEmptyIn(I) ==
    {i \in I : futures[i].out.kind = "return" /\ futures[i].out.data # << >>}

NoRepeats(q) == \A i, j \in 1..Len(q) : q[i] = q[j] => i = j

\* C11 as stated: whatever the order in which the futures were collected, the
\* mapping returned is exactly {m -> series(m)} over the metrics whose task
\* returned a non-empty series.
C11_SameMappingAnyOrder ==
    cpc = "returned" =>
        /\ DOMAIN results = {codes[i] : i \in NonEmptyIn(1..Len(futures))}
        /\ \A i \in NonEmptyIn(1..Len(futures)) :
              results[codes[i]] = futures[i].out.data

\* C11, amended: at every point of the collection loop the keys of results are
\* the metrics of the collected tasks that returned a non-empty series, and
\* each value is the series of one of these tasks for that metric; when the
\* metric list repeats no metric the mapping is exactly {m -> series(m)},
\* whatever the order of collection.
C11_SameMappingWithoutRepeats ==
    /\ DOMAIN results = {codes[i] : i \in NonEmptyIn(yielded)}
    /\ \A m \in DOMAIN results :
          \E i \in NonEmptyIn(yielded) :
              codes[i] = m /\ results[m] = futures[i].out.data
    /\ NoRepeats(codes) =>
          \A i \in NonEmptyIn(yielded) : results[codes[i]] = futures[i].out.data
    /\ cpc = "returned" => yielded = 1..Len(codes)

\* the second task was collected before the first, both with a series
C11_Witness ==
    /\ Len(codes) >= 2
    /\ NoRepeats(codes)
    /\ yielded = {2}
    /\ NonEmptyIn({1, 2}) = {1, 2}
    /\ futures[1].out.data # futures[2].out.data
    /\ results = Store(<< >>, codes[2], futures[2].out.data)

\* the tasks whose fetch_data raised
RaisedIn(I) == {i \in I : futures[i].out.kind = "raise"}

\* C12: a task that raises leaves no entry and its exception does not reach the
\* caller; every other task is still run and collected before the return, and
\* collecting a raised task leaves the entries of results as they were.
C12_FaultIsolation ==
    /\ [](/\ cpc # "raised"
          /\ \A i \in RaisedIn(yielded) :
                (\A j \in 1..Len(futures) : codes[j] = codes[i] => j \in RaisedIn(yielded))
                    => codes[i] \notin DOMAIN results
          /\ cpc = "returned" =>
                /\ \A i \in 1..Len(codes) : futures[i].st = "done" /\ i \in yielded
                /\ \A i \in NonEmptyIn(1..Len(codes)) : codes[i] \in DOMAIN results)
    /\ [][\A i \in RaisedIn(1..Len(futures)) :
              (i \notin yielded /\ i \in yielded') => results' = results]_vars

C12_Witness ==
    /\ cpc = "returned"
    /\ Len(codes) >= 2
    /\ RaisedIn(1..Len(codes)) = {1}
    /\ NonEmptyIn(1..Len(codes)) = (2..Len(codes))
    /\ DOMAIN results = {codes[i] : i \in 2..Len(codes)}
    /\ codes[1] \notin DOMAIN results

\* C14: the tasks executing at any moment never number more than max_workers.
C14_BoundedConcurrency == Cardinality(Running) <= maxWorkers

\* the pool is full and a submitted task waits for a worker
C14_Witness ==
    /\ Cardinality(Running) = maxWorkers
    /\ Queued # {}

\* C15: results changes only in a step of the calling thread that takes a
\* finished future out of as_completed; a step of a worker thread (a task
\* starting or ending) never changes it.
C15_SingleWriter ==
    [][/\ results' # results =>
            /\ cpc = "running"
            /\ futures' = futures
            /\ \E i \in 1..Len(futures) :
                  /\ futures[i].st = "done"
                  /\ i \notin yielded
                  /\ yielded' = yielded \cup {i}
       /\ futures' # futures => results' = results]_vars

\* a worker has ended its task with a series that results does not hold yet
C15_Witness ==
    \E i \in NonEmptyIn(1..Len(futures)) :
        /\ i \notin yielded
        /\ codes[i] \notin DOMAIN results

(***************************************************************************)
(* Properties of download_all_data (SpecAll) and of both result mappings   *)
(* (SpecResultSets).                                                       *)
(***************************************************************************)
\* the tasks of fetch_data_concurrently that returned an empty series
EmptyIn(I) ==
    {i \in I : futures[i].out.kind = "return" /\ futures[i].out.data = << >>}

\* C13: every key of results and of all_data maps to a non-empty series, in
\* every state, and a fetch_data call that returns an empty series leaves the
\* mapping as it was, so it adds no key.
C13_OnlyNonEmptySeries ==
    /\ [](/\ \A m \in DOMAIN results : results[m] # << >>
          /\ \A k \in DOMAIN all_data : all_data[k] # << >>)
    /\ [][/\ (dpc = "fetching" /\ lastOut'.kind = "return" /\ lastOut'.data = << >>)
                => all_data' = all_data
           /\ \A i \in EmptyIn(1..Len(futures)) :
                (i \notin yielded /\ i \in yielded') => results' = results]_vars

\* the second fetch_data call of download_all_data returned an empty series
\* after the first had returned a series
C13_Witness ==
    /\ dpc = "loop"
    /\ nCalls = 2
    /\ lastOut = [kind |-> "return", data |-> << >>]
    /\ PairAt(1) # PairAt(2)
    /\ DOMAIN all_data = {PairAt(1)}

\* every fetch_data call so far returned one and the same non-empty series
SameSeriesEveryCall ==
    /\ Cardinality(outs) = 1
    /\ \A o \in outs : o.kind = "return" /\ o.data # << >>

\* C16 as stated: with fetch_data returning the same non-empty series S for
\* every pair, download_all_data has called it once per pair and returns a
\* mapping of exactly |E|*|M| keys, each mapping to S.
C16_OneKeyPerPair ==
    (dpc = "returned" /\ SameSeriesEveryCall) =>
        /\ nCalls = Len(ccodes) * Len(icodes)
        /\ Cardinality(DOMAIN all_data) = Len(ccodes) * Len(icodes)
        /\ \A k \in DOMAIN all_data : [kind |-> "return", data |-> all_data[k]] \in outs

\* C16, amended: fetch_data is called once per position of the double loop, in
\* row-major order, a call beginning only when no call is in progress; when
\* every call returned the same non-empty series S the mapping returned has
\* exactly the different pairs of the two lists as keys, each mapping to S:
\* |E|*|M| keys when neither list repeats a code.
C16_OneCallPerPosition ==
    /\ [](/\ nCalls <= Len(ccodes) * Len(icodes)
          /\ nCalls >= 1 => lastCall = <<"fetch_data">> \o PairAt(nCalls)
          /\ (dpc = "fetching") = (nCalls >= 1 /\ lastOut = NotRun)
          /\ dpc = "returned" => nCalls = Len(ccodes) * Len(icodes)
          /\ (dpc = "returned" /\ SameSeriesEveryCall) =>
                /\ DOMAIN all_data = {PairAt(k) : k \in 1..nCalls}
                /\ \A k \in DOMAIN all_data :
                      [kind |-> "return", data |-> all_data[k]] \in outs
                /\ (NoRepeats(ccodes) /\ NoRepeats(icodes)) =>
                      Cardinality(DOMAIN all_data) = Len(ccodes) * Len(icodes))
    /\ [][nCalls' # nCalls =>
             /\ nCalls' = nCalls + 1
             /\ dpc = "loop"
             /\ nCalls >= 1 => lastOut # NotRun]_vars

\* two entities and two metrics, the same series for the four pairs
C16_Witness ==
    /\ dpc = "returned"
    /\ SameSeriesEveryCall
    /\ Len(ccodes) = 2 /\ NoRepeats(ccodes)
    /\ Len(icodes) = 2 /\ NoRepeats(icodes)
    /\ nCalls = 4
    /\ Cardinality(DOMAIN all_data) = 4
    /\ \A o \in outs : o.data = Countdown(2)

\* C17: whenever no fetch_data call is in progress, and so at the end of any
\* run, download_all_data has executed the 0.5 s delay once per fetch_data call
\* made, whether the call returned a series, returned an empty one or raised.
C17_DelayAfterEveryFetch ==
    dpc \in {"loop", "returned", "raised"} => sleeps = nCalls

\* C18 as stated: one progress value is emitted before each fetch_data call,
\* each equal to completed / total * 100 and none above 100, and each value
\* emitted is greater than the one emitted before it.
C18_ProgressStrictlyIncreasing ==
    [][/\ nCalls' # nCalls => nEmitted' = nEmitted + 1
       /\ nEmitted' # nEmitted =>
            /\ nCalls' = nCalls + 1
            /\ progress' = <<completed' * 100, total>>
            /\ completed' = nCalls'
            /\ emitted' <= 10000
            /\ nEmitted >= 1 => emitted' > emitted]_vars

\* a / b < c / d for fractions with positive denominators
Less(x, y) == x[1] * y[2] < y[1] * x[2]

\* C18, amended: one progress line is emitted before each fetch_data call; the
\* progress computed for it is completed / total * 100 with total = |E|*|M|,
\* greater than the one computed before and at most 100; the number printed is
\* this value rounded to two decimals, which is at most 100.00 and never less
\* than the number printed before.
C18_ProgressNeverDecreases ==
    [][/\ nCalls' # nCalls => nEmitted' = nEmitted + 1
       /\ nEmitted' # nEmitted =>
            /\ nCalls' = nCalls + 1
            /\ dpc = "loop" /\ dpc' = "fetching"
            /\ total = Len(ccodes) * Len(icodes)
            /\ completed' = nCalls'
            /\ progress' = <<completed' * 100, total>>
            /\ ~Less(<<100, 1>>, progress')
            /\ Less(progress, progress')
            /\ emitted' = Hundredths(progress')
            /\ emitted' <= 10000
            /\ emitted' >= emitted]_vars

\* two progress lines in a row print the same number
C18_Witness ==
    /\ nEmitted = 3
    /\ total > 10000
    /\ emitted = Hundredths(<<200, total>>)
    /\ emitted = Hundredths(<<300, total>>)
    /\ dpc = "fetching"

(***************************************************************************)
(* Properties of save_data_to_file / load_data_from_file (SpecPersist).    *)
(***************************************************************************)
\* a dict as the mapping of its keys to its values (dict equality does not
\* look at the order of the items)
KeysOf(d) == {d[i][1] : i \in 1..Len(d)}
SameDict(d, e) ==
    /\ KeysOf(d) = KeysOf(e)
    /\ \A i \in 1..Len(d), j \in 1..Len(e) : d[i][1] = e[j][1] => d[i][2] = e[j][2]

Contains(s, sep) == \E i \in 1..Len(s) : StartsAt(s, sep, i)

\* the data is keyed by (entity, metric) pairs and no code holds "__DELIM__"
PairKeyedWithoutDelim(d) ==
    \A k \in KeysOf(d) :
        /\ k.t = "tuple"
        /\ Len(k.items) = 2
        /\ \A i \in 1..2 : ~Contains(k.items[i], Delim)

\* C19: what load_data_from_file returns for the file save_data_to_file wrote
\* equals the data saved, in both modules, for data keyed by (entity, metric)
\* pairs whose codes do not contain the delimiter.
C19_RoundTrip ==
    (ppc \in {"loaded", "failed"} /\ PairKeyedWithoutDelim(saved)) =>
        /\ ppc = "loaded"
        /\ SameDict(loaded, saved)

\* the data is keyed by country codes, each value a dict of lists
NameKeyedDicts(d) ==
    \A i \in 1..Len(d) :
        /\ d[i][1].t = "str"
        /\ d[i][2].t = "dict"

\* C20: in world_bank/data_downloader.py, saving and then loading data keyed
\* by country-code strings, each value a dict from indicator to observation
\* list, gives back an equal structure: the same keys, each with its dict.
C20_RoundTripByCountry ==
    (variant = "delim" /\ ppc \in {"loaded", "failed"} /\ NameKeyedDicts(saved)) =>
        /\ ppc = "loaded"
        /\ KeysOf(loaded) = KeysOf(saved)
        /\ SameDict(loaded, saved)
        /\ \A i \in 1..Len(loaded) : loaded[i][2].t = "dict"

(***************************************************************************)
(* Properties of a retried fetch_data (SpecCall).                          *)
(***************************************************************************)
\* the items of the answers of the current attempt that were pages with
\* items, each once, in the order of the requests
AttemptPages ==
    Flatten([k \in 1..Len(reqs) |->
                IF FetchClass(reqs[k].resp) = "page" THEN ItemsOf(k) ELSE << >>])

\* C27: a new attempt of fetch_data starts at page 1 with an empty
\* accumulator, whatever the attempt that raised had accumulated, and the
\* series returned is made of the pages answered in the attempt that
\* returned, each once and in the order requested.
C27_RetryStartsAfresh ==
    /\ [][attempt' # attempt =>
             /\ attempt' = attempt + 1
             /\ page' = 1
             /\ acc' = << >>
             /\ reqs' = << >>]_vars
    /\ []((fn = "fetch_data" /\ pc = "returned") => result = AttemptPages)
    /\ []((fn = "fetch_data" /\ pc = "running" /\ reqs = << >>) =>
             (page = 1 /\ acc = << >>))

\* the first attempt raised after a page was accumulated, the second returned
\* two pages
C27_Witness ==
    /\ fn = "fetch_data"
    /\ pc = "returned"
    /\ attempt = 2
    /\ firstResp = "nometa"
    /\ Len(reqs) = 2
    /\ \A k \in 1..2 : FetchClass(reqs[k].resp) = "page"
    /\ result = ItemsOf(1) \o ItemsOf(2)

(***************************************************************************)
(* Properties of SingletonLogger (SpecLog).                                *)
(***************************************************************************)
\* no call of SingletonLogger(...) is in progress
Quiet == \A t \in Threads : tpc[t] = "idle"

\* the statements of _update_logger
UpdateLines == {"line38", "line39", "line40", "line41", "line42", "line43"}

\* C22: as long as _instance is not reset from outside, at most one instance
\* is created and initialised, and every call, in any interleaving of the
\* threads, returns that instance.
C22_SameInstanceEveryCall ==
    resets = 0 =>
        /\ made <= 1
        /\ inits <= 1
        /\ \A t \in Threads :
              /\ tret[t].kind # "AttributeError"
              /\ tret[t].kind = "instance" => tret[t].id = 1

\* C23: every logger has at most one handler, whatever the number of
\* constructions, and once a construction has ended the logger of the
\* instance has exactly one.
C23_OneHandler ==
    /\ \A n \in LoggerNames : Len(loggers[n].handlers) <= 1
    /\ (Quiet /\ instance # None) => Len(loggers[instance.logger].handlers) = 1

C23_Witness ==
    /\ Quiet
    /\ ncons = 2
    /\ resets = 1
    /\ made = 2
    /\ instance # None
    /\ \A t \in Threads : tret[t].kind # "AttributeError"
    /\ Len(loggers[instance.logger].handlers) = 1
    /\ \A n \in LoggerNames \ {instance.logger} : loggers[n].handlers = << >>

\* C24: a call SingletonLogger(logger_name=N) that returns, returns an
\* instance whose logger has name N, whether or not an instance existed
\* (stated for calls that no other call overlaps, without reset).
C24_NameOfTheCall ==
    [][\A t \in Threads :
          (/\ ~overlap
           /\ resets = 0
           /\ tpc[t] = "line26"
           /\ tpc'[t] = "idle"
           /\ Truthy(targs[t].logger_name))
          => instance.logger = targs[t].logger_name]_vars

\* C26: no call runs _update_logger on, or returns, an instance on which
\* _initialize_logger has not run to its end.
C26_NoPartialInstance ==
    \A t \in Threads : tpc[t] \in UpdateLines \cup {"line26"} => instance.done

\* what C29 says of a state in which no call is in progress
LevelAndFormatOfLastCall ==
    LET lg == loggers[instance.logger]
        level == IF lastArgs.log_level = "omitted" THEN "DEBUG"
                 ELSE lastArgs.log_level
    IN  /\ lg.level = level
        /\ lg.handlers[1].level = level
        /\ lg.handlers[1].format = instance.log_format
        /\ Truthy(lastArgs.log_format) => instance.log_format = lastArgs.log_format

\* a call with a non-empty log_format is the only thing that replaces the
\* format of an instance
FormatReplacedOnlyWhenPassed ==
    (~overlap' /\ instance.done /\ instance'.done
       /\ instance'.log_format # instance.log_format)
    => \E t \in Threads :
          /\ tpc[t] = "line39"
          /\ Truthy(targs[t].log_format)
          /\ instance'.log_format = targs[t].log_format

\* C29 as stated: after any sequence of constructions (one after the other)
\* the level of the logger and of its handler is the log_level of the most
\* recent call, DEBUG when the call left it out, and the format is replaced
\* only when that call passed a non-empty log_format.
C29_LevelOfLastCall ==
    /\ []((Quiet /\ ~overlap /\ ncons > 0 /\ instance # None) => LevelAndFormatOfLastCall)
    /\ [][FormatReplacedOnlyWhenPassed]_vars

\* C29, amended: the same, as long as _instance is not reset from outside;
\* after a reset the level of the logger and the format of the instance are
\* still those of the most recent call, the handler may keep what it had.
C29_LevelOfLastCallWithoutReset ==
    /\ []((Quiet /\ ~overlap /\ ncons > 0 /\ instance # None) =>
            LET lg == loggers[instance.logger]
                level == IF lastArgs.log_level = "omitted" THEN "DEBUG"
                         ELSE lastArgs.log_level
            IN  /\ lg.level = level
                /\ instance.log_level = level
                /\ Truthy(lastArgs.log_format) =>
                      instance.log_format = lastArgs.log_format
                /\ resets = 0 => LevelAndFormatOfLastCall)
    /\ [][FormatReplacedOnlyWhenPassed]_vars

C29_Witness ==
    /\ Quiet
    /\ ~overlap
    /\ resets = 0
    /\ ncons = 2
    /\ lastArgs = Args("TestLogger", "INFO", "")
    /\ instance.logger = ClassName
    /\ instance.log_format = CustomFormat
    /\ loggers[ClassName].level = "INFO"
    /\ loggers[ClassName].handlers = <<[level |-> "INFO", format |-> CustomFormat]>>

(***************************************************************************)
(* Properties of main() and extract() (SpecMain).                          *)
(***************************************************************************)
\* the positions of mlog that record the operation op
Positions(op) == {i \in 1..Len(mlog) : mlog[i].op = op}

\* main() has ended: it returned, or RetryError left it
Ended == mpc \in {"returned", "raised"}

\* C21: main() enumerates, fetches and saves in that order: both lists are
\* fetched before any fetch_data_concurrently call; save_data_to_file is
\* called at most once, and exactly once in a run of main() that has ended,
\* only after a call for every country code has returned and with no call
\* after it; all_data is what was written from then on.
C21_EnumerateFetchSave ==
    /\ [](prog = "main" =>
            /\ \A i \in Positions("fetch_data_concurrently") :
                  /\ \E j \in Positions("get_country_codes") : j < i
                  /\ \E j \in Positions("get_indicators") : j < i
            /\ Cardinality(Positions("save_data_to_file")) <= 1
            /\ Ended => Cardinality(Positions("save_data_to_file")) = 1
            /\ \A i \in Positions("save_data_to_file") :
                  /\ Cardinality(Positions("fetch_data_concurrently")) = Len(country_codes)
                  /\ Cardinality(Positions("returned")) = Len(country_codes)
                  /\ \A j \in Positions("fetch_data_concurrently") \cup Positions("returned") :
                        j < i
                  /\ aggregate = written
                  /\ saved = written)
    /\ [][(prog = "main" /\ Positions("save_data_to_file") # {})
            => aggregate' = aggregate]_vars

\* C25: when get_indicators returns no indicators and
\* fetch_data_concurrently returns an empty mapping, extract() has called
\* save_data_to_file once, with the empty mapping and the file of AUS, and
\* emits no info line.
C25_EmptyExtract ==
    (/\ prog = "extract"
     /\ mpc \in {"line28", "line31"}
     /\ indicators = << >>
     /\ country_data.items = << >>)
    => /\ Cardinality(Positions("save_data_to_file")) = 1
       /\ \A i \in Positions("save_data_to_file") : mlog[i].arg = FileOf(AUS)
       /\ saved = << >>
       /\ infos = 0
       /\ mpc = "line31" => ReportLines(loaded) = 0

\* C28: in the aggregate main() builds and saves, a country code is a key
\* only if fetch_data_concurrently returned a non-empty mapping for it.
C28_OnlyNonEmptyCountries ==
    prog = "main" =>
        /\ \A i \in 1..Len(aggregate) : aggregate[i][2].items # << >>
        /\ \A i \in 1..Len(saved) : saved[i][2].items # << >>

====
